---- MODULE Spec2Model ----
(***************************************************************************)
(* Model of package lmdbsync (exp/lmdbsync/lmdbsync.go): the Env wrapper   *)
(* around an lmdb.Env, its noLock flag, its txnlock (a sync.RWMutex) and   *)
(* the retry loop of runHandler.  Goroutines are the processes of Procs;   *)
(* every blocking call and every read or write of shared state is a step.  *)
(***************************************************************************)
EXTENDS Integers, Sequences, FiniteSets, TLC

\* ------------------------------------------------------------------ bounds
NProcs == 2        \* concurrent goroutines calling into one Env
MaxAttempts == 3   \* attempts of one operation are counted up to this
MaxSize == 2       \* map sizes are 1..MaxSize
MaxHandlers == 1   \* handlers passed to NewEnv

Procs == 1..NProcs
None == 0
Sizes == 1..MaxSize

\* ------------------------------------------------------------------ values
\* error values; "nil" is the nil error
Errs == {"nil", "MapResized", "MapFull", "EBody", "RetryTxn", "EINVAL", "EIO"}
\* errors an engine transaction attempt may end with: the engine's own, and
\* whatever the caller's TxnOp returns, the RetryTxn value included
TxnErrs == {"nil", "MapResized", "MapFull", "EBody", "RetryTxn"}
\* flag bits; flags are sets of bits, flags&bit != 0 is bit \in flags
EnvFlagArgs == SUBSET {"NoLock", "NoSync"}
\* the bits of the engine's flags the model keeps: NewEnv reads no other
EngineBits == {"NoLock"}
TxnFlagArgs == SUBSET {"Readonly"}
\* handlers: the baseline resize handler and three caller-written ones
HandlerIds == {"resized", "retryBody", "mask", "wrap"}

RECURSIVE SeqsUpTo(_, _)
SeqsUpTo(S, n) ==
    IF n = 0 THEN {<<>>}
    ELSE LET shorter == SeqsUpTo(S, n - 1)
         IN  shorter \cup {Append(s, x) : s \in {t \in shorter : Len(t) = n - 1}, x \in S}
Chains == SeqsUpTo(HandlerIds, MaxHandlers)
\* what the engine does on the attempts of one operation: MapResized on the
\* first `resized` attempts, `final` on every later one
Scripts == [resized : 0..(MaxAttempts - 1), final : TxnErrs]
NoScript == [resized |-> 0, final |-> "nil"]
\* the inputs of the concurrent specification: success at once, or after one
\* resize race
ConcScripts == [resized : {0, 1}, final : {"nil"}]

VARIABLES
    \* the lmdb.Env handle (the engine)
    engOpen, engFlags, mapSize,
    \* arguments and engine answers of NewEnv
    envArg, newErr, flagsRes,
    \* the Env wrapper, and the error NewEnv returned
    constructed, ctorErr, Handlers, noLock,
    \* txnlock: holder of the writer mutex, read holders, blocked readers
    w, readers, rwait,
    \* goroutines: position and locals
    pc, via, readonly, chain, script, attempts, err, hidx, mode,
    size, delay, ctx, fflags, ferr, ret,
    \* history
    resizes, lastFlag, derived, ctorMirrors

engineVars == <<engOpen, engFlags, mapSize>>
ctorVars == <<envArg, newErr, flagsRes>>
envVars == <<constructed, ctorErr, Handlers, noLock>>
lockVars == <<w, readers, rwait>>
txnVars == <<via, readonly, chain, script, attempts, err, hidx, mode>>
resizeVars == <<size, delay, ctx>>
flagVars == <<fflags, ferr>>
histVars == <<resizes, lastFlag, derived, ctorMirrors>>
vars == <<engineVars, ctorVars, envVars, lockVars, pc, txnVars, resizeVars,
          flagVars, ret, histVars>>

\* ------------------------------------------------------------------ Init
\* The state before NewEnv: a caller-supplied engine handle (open or not, with
\* any flags) or none, and what lmdb.NewEnv and env.Flags will answer.
Init ==
    /\ envArg \in {"nil", "given"}
    /\ newErr \in {"nil", "EIO"}
    /\ flagsRes \in {"nil", "EINVAL", "EIO"}
    /\ engOpen \in BOOLEAN
    /\ engFlags \in SUBSET EngineBits
    /\ envArg = "nil" => (~engOpen /\ engFlags = {})
    /\ envArg = "given" => newErr = "nil"
    /\ flagsRes = "EINVAL" => ~engOpen
    /\ mapSize = 1
    /\ constructed = "no"
    /\ ctorErr = "nil"
    /\ Handlers = <<>>
    /\ noLock = FALSE
    /\ w = None
    /\ readers = {}
    /\ rwait = {}
    /\ pc = [p \in Procs |-> "idle"]
    /\ via = [p \in Procs |-> ""]
    /\ readonly = [p \in Procs |-> FALSE]
    /\ chain = [p \in Procs |-> <<>>]
    /\ script = [p \in Procs |-> NoScript]
    /\ attempts = [p \in Procs |-> 0]
    /\ err = [p \in Procs |-> "nil"]
    /\ hidx = [p \in Procs |-> 0]
    /\ mode = [p \in Procs |-> ""]
    /\ size = [p \in Procs |-> 0]
    /\ delay = [p \in Procs |-> 0]
    /\ ctx = [p \in Procs |-> ""]
    /\ fflags = [p \in Procs |-> {}]
    /\ ferr = [p \in Procs |-> "nil"]
    /\ ret = [p \in Procs |-> "nil"]
    /\ resizes = [p \in Procs |-> 0]
    /\ lastFlag = "none"
    /\ derived = FALSE
    /\ ctorMirrors = FALSE

\* ------------------------------------------------------------------ NewEnv
\* env.Flags(): the flags and the error; no flags come with an error
EngineFlags == IF flagsRes = "nil" THEN engFlags ELSE {}

\* a NewEnv that does not look at the flags of the engine it wraps
NewEnvNoDetect(h) ==
    /\ constructed = "no"
    /\ IF envArg = "nil" /\ newErr # "nil"
       THEN /\ constructed' = "failed"
            /\ ctorErr' = newErr
            /\ UNCHANGED <<Handlers, noLock, ctorMirrors>>
       ELSE IF flagsRes \notin {"nil", "EINVAL"}
       THEN /\ constructed' = "failed"
            /\ ctorErr' = flagsRes
            /\ UNCHANGED <<Handlers, noLock, ctorMirrors>>
       ELSE /\ constructed' = "yes"
            /\ ctorErr' = "nil"
            /\ noLock' = FALSE
            /\ ctorMirrors' = ("NoLock" \notin engFlags)
            /\ Handlers' = h
    /\ envArg' = "given"
    /\ newErr' = "nil"
    /\ flagsRes' = "nil"
    /\ UNCHANGED <<engineVars, lockVars, pc, txnVars, resizeVars,
                   flagVars, ret, resizes, lastFlag, derived>>

NewEnv(h) ==
    /\ constructed = "no"
    /\ IF envArg = "nil" /\ newErr # "nil"
       THEN /\ constructed' = "failed"
            /\ ctorErr' = newErr
            /\ UNCHANGED <<Handlers, noLock, ctorMirrors>>
       ELSE IF flagsRes \notin {"nil", "EINVAL"}
       THEN /\ constructed' = "failed"
            /\ ctorErr' = flagsRes
            /\ UNCHANGED <<Handlers, noLock, ctorMirrors>>
       ELSE /\ constructed' = "yes"
            /\ ctorErr' = "nil"
            /\ noLock' = ("NoLock" \in EngineFlags)
            \* history: whether the new r.noLock agrees with the engine's flags
            /\ ctorMirrors' = (("NoLock" \in EngineFlags) = ("NoLock" \in engFlags))
            /\ Handlers' = h
    \* the arguments are consumed
    /\ envArg' = "given"
    /\ newErr' = "nil"
    /\ flagsRes' = "nil"
    /\ UNCHANGED <<engineVars, lockVars, pc, txnVars, resizeVars,
                   flagVars, ret, resizes, lastFlag, derived>>

\* ------------------------------------------------------------------ txnlock
\* sync.RWMutex.  Lock takes the writer mutex rw.w and announces the writer,
\* after which new readers block; the writer then waits for the read holders
\* to leave.  Unlock admits every blocked reader and frees rw.w.  RLock enters
\* at once unless a writer is announced.
LockPcs == {"run_Lock", "sms_Lock", "set_Lock"}
WaitPcs == {"run_LockWait", "sms_LockWait", "set_LockWait"}

WaitOf(at) ==
    CASE at = "run_Lock" -> "run_LockWait"
      [] at = "sms_Lock" -> "sms_LockWait"
      [] at = "set_Lock" -> "set_LockWait"

\* where a goroutine continues once it holds the lock exclusively: run line
\* 270, SetMapSize line 178, setMapSize line 185
AfterLock(p) ==
    CASE pc[p] \in {"run_Lock", "run_LockWait"} -> "body"
      [] pc[p] \in {"sms_Lock", "sms_LockWait"} -> "sms_call"
      [] pc[p] \in {"set_Lock", "set_LockWait"} ->
           IF delay[p] > 0 THEN "set_sleep" ELSE "set_engine"

Lock(p) ==
    /\ pc[p] \in LockPcs
    /\ w = None
    /\ w' = p
    /\ pc' = [pc EXCEPT ![p] = IF readers = {} THEN AfterLock(p) ELSE WaitOf(pc[p])]
    /\ UNCHANGED <<engineVars, ctorVars, envVars, readers, rwait, txnVars,
                   resizeVars, flagVars, ret, histVars>>

LockGranted(p) ==
    /\ pc[p] \in WaitPcs
    /\ w = p
    /\ readers = {}
    /\ pc' = [pc EXCEPT ![p] = AfterLock(p)]
    /\ UNCHANGED <<engineVars, ctorVars, envVars, lockVars, txnVars,
                   resizeVars, flagVars, ret, histVars>>

RLock(p) ==
    /\ pc[p] = "run_RLock"
    /\ IF w = None
       THEN /\ readers' = readers \cup {p}
            /\ pc' = [pc EXCEPT ![p] = "body"]
            /\ UNCHANGED rwait
       ELSE /\ rwait' = rwait \cup {p}
            /\ pc' = [pc EXCEPT ![p] = "run_RLockWait"]
            /\ UNCHANGED readers
    /\ UNCHANGED <<engineVars, ctorVars, envVars, w, txnVars,
                   resizeVars, flagVars, ret, histVars>>

RLockGranted(p) ==
    /\ pc[p] = "run_RLockWait"
    /\ p \in readers
    /\ pc' = [pc EXCEPT ![p] = "body"]
    /\ UNCHANGED <<engineVars, ctorVars, envVars, lockVars, txnVars,
                   resizeVars, flagVars, ret, histVars>>

Unlock ==
    /\ w' = None
    /\ readers' = rwait
    /\ rwait' = {}

RUnlock(p) ==
    /\ readers' = readers \ {p}
    /\ UNCHANGED <<w, rwait>>

\* ------------------------------------------------------------------ transactions
\* the engine's answer on attempt number n of a script
AttemptResult(s, n) == IF n <= s.resized THEN "MapResized" ELSE s.final

\* runHandler up to its first call of run: the locals of one operation
runHandler(p, ro, h, s) ==
    /\ constructed = "yes"
    /\ pc' = [pc EXCEPT ![p] = "run"]
    /\ readonly' = [readonly EXCEPT ![p] = ro]
    /\ chain' = [chain EXCEPT ![p] = h]
    /\ script' = [script EXCEPT ![p] = s]
    /\ attempts' = [attempts EXCEPT ![p] = 0]
    /\ err' = [err EXCEPT ![p] = "nil"]
    /\ hidx' = [hidx EXCEPT ![p] = 0]
    /\ UNCHANGED <<engineVars, ctorVars, envVars, lockVars, mode,
                   resizeVars, flagVars, ret, resizes, lastFlag, ctorMirrors>>

RunTxn(p, flags, s) ==
    /\ pc[p] = "idle"
    /\ via' = [via EXCEPT ![p] = "env"]
    /\ UNCHANGED derived
    /\ runHandler(p, "Readonly" \in flags, Handlers, s)

View(p, s) ==
    /\ pc[p] = "idle"
    /\ via' = [via EXCEPT ![p] = "env"]
    /\ UNCHANGED derived
    /\ runHandler(p, TRUE, Handlers, s)

Update(p, s) ==
    /\ pc[p] = "idle"
    /\ via' = [via EXCEPT ![p] = "env"]
    /\ UNCHANGED derived
    /\ runHandler(p, FALSE, Handlers, s)

UpdateLocked(p, s) ==
    /\ pc[p] = "idle"
    /\ via' = [via EXCEPT ![p] = "env"]
    /\ UNCHANGED derived
    /\ runHandler(p, FALSE, Handlers, s)

\* a run that takes the read lock whatever r.noLock says
runShared(p) ==
    /\ pc[p] = "run"
    /\ mode' = [mode EXCEPT ![p] = "shared"]
    /\ pc' = [pc EXCEPT ![p] = "run_RLock"]
    /\ UNCHANGED <<engineVars, ctorVars, envVars, lockVars, via, readonly,
                   chain, script, attempts, err, hidx, resizeVars, flagVars,
                   ret, histVars>>

\* a run that takes the write lock for every write, whatever r.noLock says
runWriteExclusive(p) ==
    /\ pc[p] = "run"
    /\ IF ~readonly[p]
       THEN /\ mode' = [mode EXCEPT ![p] = "excl"]
            /\ pc' = [pc EXCEPT ![p] = "run_Lock"]
       ELSE /\ mode' = [mode EXCEPT ![p] = "shared"]
            /\ pc' = [pc EXCEPT ![p] = "run_RLock"]
    /\ UNCHANGED <<engineVars, ctorVars, envVars, lockVars, via, readonly,
                   chain, script, attempts, err, hidx, resizeVars, flagVars,
                   ret, histVars>>

\* run, lines 267-269 and 273: the read of r.noLock picks the lock mode
run(p) ==
    /\ pc[p] = "run"
    /\ IF noLock /\ ~readonly[p]
       THEN /\ mode' = [mode EXCEPT ![p] = "excl"]
            /\ pc' = [pc EXCEPT ![p] = "run_Lock"]
       ELSE /\ mode' = [mode EXCEPT ![p] = "shared"]
            /\ pc' = [pc EXCEPT ![p] = "run_RLock"]
    /\ UNCHANGED <<engineVars, ctorVars, envVars, lockVars, via, readonly,
                   chain, script, attempts, err, hidx, resizeVars, flagVars,
                   ret, histVars>>

\* the loop of runHandler has no bound; the model stops counting at MaxAttempts
Counted(n) == IF n < MaxAttempts THEN n ELSE MaxAttempts

\* a run that comes back from fn with txnlock still held
runReturnHolding(p) ==
    /\ pc[p] = "body"
    /\ attempts' = [attempts EXCEPT ![p] = Counted(attempts[p] + 1)]
    /\ err' = [err EXCEPT ![p] = AttemptResult(script[p], attempts[p] + 1)]
    /\ hidx' = [hidx EXCEPT ![p] = 1]
    /\ pc' = [pc EXCEPT ![p] = "handle"]
    /\ UNCHANGED <<engineVars, ctorVars, envVars, lockVars, via, readonly, chain,
                   script, mode, resizeVars, flagVars, ret, histVars>>

\* run, lines 270-271 and 274-277: fn returns, the lock is released, and
\* runHandler (line 260) starts the handler chain
runReturn(p) ==
    /\ pc[p] = "body"
    /\ attempts' = [attempts EXCEPT ![p] = Counted(attempts[p] + 1)]
    /\ err' = [err EXCEPT ![p] = AttemptResult(script[p], attempts[p] + 1)]
    /\ IF mode[p] = "excl" THEN Unlock ELSE RUnlock(p)
    /\ hidx' = [hidx EXCEPT ![p] = 1]
    /\ pc' = [pc EXCEPT ![p] = "handle"]
    /\ UNCHANGED <<engineVars, ctorVars, envVars, via, readonly, chain,
                   script, mode, resizeVars, flagVars, ret, histVars>>

\* HandlerChain.Append: a new chain, the receiver is not written
ChainAppend(c, h) == Append(c, h)

\* a WithHandler that appends to r.Handlers in place
WithHandlerInPlace(p, h) ==
    /\ constructed = "yes"
    /\ pc[p] = "idle"
    /\ pc' = [pc EXCEPT ![p] = "runner"]
    /\ via' = [via EXCEPT ![p] = "runner"]
    /\ chain' = [chain EXCEPT ![p] = ChainAppend(Handlers, h)]
    /\ Handlers' = ChainAppend(Handlers, h)
    /\ UNCHANGED <<engineVars, ctorVars, constructed, ctorErr, noLock, lockVars,
                   readonly, script, attempts, err, hidx, mode, resizeVars,
                   flagVars, ret, histVars>>

\* WithHandler: a handlerRunner {env: r, h: r.Handlers.Append(h)}; the
\* goroutine keeps the runner's chain in chain[p]
WithHandler(p, h) ==
    /\ constructed = "yes"
    /\ pc[p] = "idle"
    /\ pc' = [pc EXCEPT ![p] = "runner"]
    /\ via' = [via EXCEPT ![p] = "runner"]
    /\ chain' = [chain EXCEPT ![p] = ChainAppend(Handlers, h)]
    /\ Handlers' = Handlers
    /\ UNCHANGED <<engineVars, ctorVars, constructed, ctorErr, noLock, lockVars,
                   readonly, script, attempts, err, hidx, mode, resizeVars,
                   flagVars, ret, histVars>>

\* the four transaction methods of a handlerRunner: runHandler on the runner's
\* env with the runner's chain
RunnerTxn(p, fn, flags, s) ==
    /\ pc[p] = "runner"
    /\ derived' = TRUE
    /\ UNCHANGED via
    /\ runHandler(p,
                  CASE fn = "RunTxn" -> "Readonly" \in flags
                    [] fn = "View" -> TRUE
                    [] OTHER -> FALSE,
                  chain[p], s)

\* a setMapSize that goes to the engine without taking txnlock
setMapSizeUnlocked(p, sz, d, c) ==
    /\ pc' = [pc EXCEPT ![p] = "set_engine"]
    /\ size' = [size EXCEPT ![p] = sz]
    /\ delay' = [delay EXCEPT ![p] = d]
    /\ ctx' = [ctx EXCEPT ![p] = c]

\* setMapSize lines 183-184: the call, up to its Lock
setMapSize(p, sz, d, c) ==
    /\ pc' = [pc EXCEPT ![p] = "set_Lock"]
    /\ size' = [size EXCEPT ![p] = sz]
    /\ delay' = [delay EXCEPT ![p] = d]
    /\ ctx' = [ctx EXCEPT ![p] = c]

\* what a handler other than the resize handler's MapResized case returns
\* (retryBody asks for a retry on EBody, mask hides EBody, wrap returns an
\* error of its own for whatever it is given, nil included)
HandlerResult(h, e) ==
    CASE h = "retryBody" /\ e = "EBody" -> "RetryTxn"
      [] h = "mask" /\ e = "EBody" -> "nil"
      [] h = "wrap" -> "EBody"
      [] OTHER -> e

\* runHandler line 260, one handler of the chain at a time.  The resize
\* handler answers MapResized by calling env.setMapSize(0, delay) on the Env
\* found in the bag; every other case is a plain function of the error.
HandleTxnErr(p) ==
    /\ pc[p] = "handle"
    /\ hidx[p] <= Len(chain[p])
    /\ IF chain[p][hidx[p]] = "resized" /\ err[p] = "MapResized"
       THEN /\ \E d \in {0, 1} : setMapSize(p, 0, d, "handler")
            /\ UNCHANGED <<err, hidx>>
       ELSE /\ err' = [err EXCEPT ![p] = HandlerResult(chain[p][hidx[p]], err[p])]
            /\ hidx' = [hidx EXCEPT ![p] = hidx[p] + 1]
            /\ UNCHANGED <<pc, resizeVars>>
    /\ UNCHANGED <<engineVars, ctorVars, envVars, lockVars, via, readonly,
                   chain, script, attempts, mode, flagVars, ret, histVars>>

\* a runHandler that loops on every error, not on RetryTxn alone
runHandlerRetryAll(p) ==
    /\ pc[p] = "handle"
    /\ hidx[p] > Len(chain[p])
    /\ IF err[p] = "nil"
       THEN /\ pc' = [pc EXCEPT ![p] = "done"]
            /\ ret' = [ret EXCEPT ![p] = err[p]]
       ELSE /\ pc' = [pc EXCEPT ![p] = "run"]
            /\ UNCHANGED ret
    /\ UNCHANGED <<engineVars, ctorVars, envVars, lockVars, txnVars,
                   resizeVars, flagVars, histVars>>

\* a runHandler without its loop: whatever the chain answers is returned
runHandlerOnce(p) ==
    /\ pc[p] = "handle"
    /\ hidx[p] > Len(chain[p])
    /\ pc' = [pc EXCEPT ![p] = "done"]
    /\ ret' = [ret EXCEPT ![p] = err[p]]
    /\ UNCHANGED <<engineVars, ctorVars, envVars, lockVars, txnVars,
                   resizeVars, flagVars, histVars>>

\* a runHandler that returns nil in place of the chain's terminal result
runHandlerDropErr(p) ==
    /\ pc[p] = "handle"
    /\ hidx[p] > Len(chain[p])
    /\ IF err[p] # "RetryTxn"
       THEN /\ pc' = [pc EXCEPT ![p] = "done"]
            /\ ret' = [ret EXCEPT ![p] = "nil"]
       ELSE /\ pc' = [pc EXCEPT ![p] = "run"]
            /\ UNCHANGED ret
    /\ UNCHANGED <<engineVars, ctorVars, envVars, lockVars, txnVars,
                   resizeVars, flagVars, histVars>>

\* runHandler lines 261-263: return the chain's result, or loop on RetryTxn
runHandlerReturn(p) ==
    /\ pc[p] = "handle"
    /\ hidx[p] > Len(chain[p])
    /\ IF err[p] # "RetryTxn"
       THEN /\ pc' = [pc EXCEPT ![p] = "done"]
            /\ ret' = [ret EXCEPT ![p] = err[p]]
       ELSE /\ pc' = [pc EXCEPT ![p] = "run"]
            /\ UNCHANGED ret
    /\ UNCHANGED <<engineVars, ctorVars, envVars, lockVars, txnVars,
                   resizeVars, flagVars, histVars>>

\* ------------------------------------------------------------------ resize
\* SetMapSize lines 176-177: the call, up to its Lock
SetMapSize(p, sz) ==
    /\ constructed = "yes"
    /\ pc[p] = "idle"
    /\ pc' = [pc EXCEPT ![p] = "sms_Lock"]
    /\ size' = [size EXCEPT ![p] = sz]
    /\ UNCHANGED <<engineVars, ctorVars, envVars, lockVars, txnVars, delay,
                   ctx, flagVars, ret, histVars>>

\* SetMapSize line 178, with the lock held: r.setMapSize(size, 0)
SetMapSizeCall(p) ==
    /\ pc[p] = "sms_call"
    /\ setMapSize(p, size[p], 0, "public")
    /\ UNCHANGED <<engineVars, ctorVars, envVars, lockVars, txnVars,
                   flagVars, ret, histVars>>

\* a setMapSize that gives txnlock up for the time of its sleep
setMapSizeSleepUnlocked(p) ==
    /\ pc[p] = "set_sleep"
    /\ pc' = [pc EXCEPT ![p] = "set_engine"]
    /\ Unlock
    /\ UNCHANGED <<engineVars, ctorVars, envVars, txnVars,
                   resizeVars, flagVars, ret, histVars>>

\* setMapSize line 189: time.Sleep(delay) with the lock held
setMapSizeSleep(p) ==
    /\ pc[p] = "set_sleep"
    /\ pc' = [pc EXCEPT ![p] = "set_engine"]
    /\ UNCHANGED <<engineVars, ctorVars, envVars, lockVars, txnVars,
                   resizeVars, flagVars, ret, histVars>>

\* the engine's SetMapSize: size 0 adopts the size another process set
EngineSetMapSize(sz, e, ext) ==
    IF e # "nil" THEN mapSize ELSE IF sz = 0 THEN ext ELSE sz

\* setMapSize lines 191-193: the engine resize, Unlock, return.  Back in the
\* resize handler a nil error becomes RetryTxn; back in SetMapSize, line 179
\* unlocks a mutex that line 192 has unlocked, which is fatal in Go.
setMapSizeReturn(p) ==
    /\ pc[p] = "set_engine"
    /\ \E e \in {"nil", "EINVAL"}, ext \in Sizes :
         /\ mapSize' = EngineSetMapSize(size[p], e, ext)
         /\ IF ctx[p] = "handler"
            THEN /\ err' = [err EXCEPT ![p] = IF e = "nil" THEN "RetryTxn" ELSE e]
                 /\ hidx' = [hidx EXCEPT ![p] = hidx[p] + 1]
                 /\ pc' = [pc EXCEPT ![p] = "handle"]
            ELSE /\ pc' = [pc EXCEPT ![p] = "fatal"]
                 /\ UNCHANGED <<err, hidx>>
    /\ Unlock
    /\ resizes' = [resizes EXCEPT ![p] = Counted(resizes[p] + 1)]
    /\ size' = [size EXCEPT ![p] = 0]
    /\ delay' = [delay EXCEPT ![p] = 0]
    /\ ctx' = [ctx EXCEPT ![p] = ""]
    /\ UNCHANGED <<engOpen, engFlags, ctorVars, envVars, via, readonly,
                   chain, script, attempts, mode, flagVars, ret, lastFlag,
                   derived, ctorMirrors>>

\* ------------------------------------------------------------------ flags
\* Open line 129: the engine's Open.  An open engine refuses; on success the
\* engine is open with the flags added.
Open(p, flags) ==
    /\ constructed = "yes"
    /\ pc[p] = "idle"
    /\ \E e \in (IF engOpen THEN {"EINVAL"} ELSE {"nil", "EIO"}) :
         /\ ferr' = [ferr EXCEPT ![p] = e]
         /\ engOpen' = (engOpen \/ e = "nil")
         /\ engFlags' = IF e = "nil" THEN engFlags \cup (flags \cap EngineBits) ELSE engFlags
    /\ fflags' = [fflags EXCEPT ![p] = flags]
    /\ pc' = [pc EXCEPT ![p] = "open_ret"]
    /\ UNCHANGED <<mapSize, ctorVars, envVars, lockVars, txnVars, resizeVars,
                   ret, histVars>>

\* an Open that updates r.noLock before it looks at the error
OpenEarly(p) ==
    /\ pc[p] = "open_ret"
    /\ ret' = [ret EXCEPT ![p] = ferr[p]]
    /\ noLock' = (noLock \/ "NoLock" \in fflags[p])
    /\ lastFlag' = IF ferr[p] = "nil" /\ "NoLock" \in fflags[p] THEN "set" ELSE lastFlag
    /\ pc' = [pc EXCEPT ![p] = "done"]
    /\ fflags' = [fflags EXCEPT ![p] = {}]
    /\ ferr' = [ferr EXCEPT ![p] = "nil"]
    /\ UNCHANGED <<engineVars, ctorVars, constructed, ctorErr, Handlers,
                   lockVars, txnVars, resizeVars, resizes, derived,
                   ctorMirrors>>

\* Open lines 130-139
OpenReturn(p) ==
    /\ pc[p] = "open_ret"
    /\ IF ferr[p] # "nil"
       THEN /\ ret' = [ret EXCEPT ![p] = ferr[p]]
            /\ UNCHANGED <<noLock, lastFlag>>
       ELSE /\ ret' = [ret EXCEPT ![p] = "nil"]
            /\ IF "NoLock" \in fflags[p]
               THEN /\ noLock' = TRUE
                    /\ lastFlag' = "set"
               ELSE UNCHANGED <<noLock, lastFlag>>
    /\ pc' = [pc EXCEPT ![p] = "done"]
    /\ fflags' = [fflags EXCEPT ![p] = {}]
    /\ ferr' = [ferr EXCEPT ![p] = "nil"]
    /\ UNCHANGED <<engineVars, ctorVars, constructed, ctorErr, Handlers,
                   lockVars, txnVars, resizeVars, resizes, derived,
                   ctorMirrors>>

\* SetFlags line 145: the engine's SetFlags
SetFlags(p, flags) ==
    /\ constructed = "yes"
    /\ pc[p] = "idle"
    /\ \E e \in {"nil", "EINVAL"} :
         /\ ferr' = [ferr EXCEPT ![p] = e]
         /\ engFlags' = IF e = "nil" THEN engFlags \cup (flags \cap EngineBits) ELSE engFlags
    /\ fflags' = [fflags EXCEPT ![p] = flags]
    /\ pc' = [pc EXCEPT ![p] = "setflags_ret"]
    /\ UNCHANGED <<engOpen, mapSize, ctorVars, envVars, lockVars, txnVars,
                   resizeVars, ret, histVars>>

\* a SetFlags that compares flags with lmdb.NoLock instead of testing the bit
SetFlagsEq(p) ==
    /\ pc[p] = "setflags_ret"
    /\ IF ferr[p] # "nil"
       THEN /\ ret' = [ret EXCEPT ![p] = ferr[p]]
            /\ UNCHANGED <<noLock, lastFlag>>
       ELSE /\ ret' = [ret EXCEPT ![p] = "nil"]
            /\ noLock' = (noLock \/ fflags[p] = {"NoLock"})
            /\ lastFlag' = IF "NoLock" \in fflags[p] THEN "set" ELSE lastFlag
    /\ pc' = [pc EXCEPT ![p] = "done"]
    /\ fflags' = [fflags EXCEPT ![p] = {}]
    /\ ferr' = [ferr EXCEPT ![p] = "nil"]
    /\ UNCHANGED <<engineVars, ctorVars, constructed, ctorErr, Handlers,
                   lockVars, txnVars, resizeVars, resizes, derived,
                   ctorMirrors>>

\* SetFlags lines 146-155
SetFlagsReturn(p) ==
    /\ pc[p] = "setflags_ret"
    /\ IF ferr[p] # "nil"
       THEN /\ ret' = [ret EXCEPT ![p] = ferr[p]]
            /\ UNCHANGED <<noLock, lastFlag>>
       ELSE /\ ret' = [ret EXCEPT ![p] = "nil"]
            /\ IF "NoLock" \in fflags[p]
               THEN /\ noLock' = TRUE
                    /\ lastFlag' = "set"
               ELSE UNCHANGED <<noLock, lastFlag>>
    /\ pc' = [pc EXCEPT ![p] = "done"]
    /\ fflags' = [fflags EXCEPT ![p] = {}]
    /\ ferr' = [ferr EXCEPT ![p] = "nil"]
    /\ UNCHANGED <<engineVars, ctorVars, constructed, ctorErr, Handlers,
                   lockVars, txnVars, resizeVars, resizes, derived,
                   ctorMirrors>>

\* UnsetFlags line 161: the engine's UnsetFlags
UnsetFlags(p, flags) ==
    /\ constructed = "yes"
    /\ pc[p] = "idle"
    /\ \E e \in {"nil", "EINVAL"} :
         /\ ferr' = [ferr EXCEPT ![p] = e]
         /\ engFlags' = IF e = "nil" THEN engFlags \ flags ELSE engFlags
    /\ fflags' = [fflags EXCEPT ![p] = flags]
    /\ pc' = [pc EXCEPT ![p] = "unsetflags_ret"]
    /\ UNCHANGED <<engOpen, mapSize, ctorVars, envVars, lockVars, txnVars,
                   resizeVars, ret, histVars>>

\* an UnsetFlags that leaves r.noLock as it is
UnsetFlagsKeep(p) ==
    /\ pc[p] = "unsetflags_ret"
    /\ ret' = [ret EXCEPT ![p] = ferr[p]]
    /\ lastFlag' = IF ferr[p] = "nil" /\ "NoLock" \in fflags[p] THEN "unset" ELSE lastFlag
    /\ pc' = [pc EXCEPT ![p] = "done"]
    /\ fflags' = [fflags EXCEPT ![p] = {}]
    /\ ferr' = [ferr EXCEPT ![p] = "nil"]
    /\ UNCHANGED <<engineVars, ctorVars, envVars, lockVars, txnVars,
                   resizeVars, resizes, derived,
                   ctorMirrors>>

\* UnsetFlags lines 162-171
UnsetFlagsReturn(p) ==
    /\ pc[p] = "unsetflags_ret"
    /\ IF ferr[p] # "nil"
       THEN /\ ret' = [ret EXCEPT ![p] = ferr[p]]
            /\ UNCHANGED <<noLock, lastFlag>>
       ELSE /\ ret' = [ret EXCEPT ![p] = "nil"]
            /\ IF "NoLock" \in fflags[p]
               THEN /\ noLock' = FALSE
                    /\ lastFlag' = "unset"
               ELSE UNCHANGED <<noLock, lastFlag>>
    /\ pc' = [pc EXCEPT ![p] = "done"]
    /\ fflags' = [fflags EXCEPT ![p] = {}]
    /\ ferr' = [ferr EXCEPT ![p] = "nil"]
    /\ UNCHANGED <<engineVars, ctorVars, constructed, ctorErr, Handlers,
                   lockVars, txnVars, resizeVars, resizes, derived,
                   ctorMirrors>>

\* the caller has the result; the goroutine is free for its next call
Return(p) ==
    /\ pc[p] = "done"
    /\ pc' = [pc EXCEPT ![p] = "idle"]
    /\ via' = [via EXCEPT ![p] = ""]
    /\ readonly' = [readonly EXCEPT ![p] = FALSE]
    /\ chain' = [chain EXCEPT ![p] = <<>>]
    /\ script' = [script EXCEPT ![p] = NoScript]
    /\ attempts' = [attempts EXCEPT ![p] = 0]
    /\ err' = [err EXCEPT ![p] = "nil"]
    /\ hidx' = [hidx EXCEPT ![p] = 0]
    /\ mode' = [mode EXCEPT ![p] = ""]
    /\ ret' = [ret EXCEPT ![p] = "nil"]
    /\ resizes' = [resizes EXCEPT ![p] = 0]
    /\ UNCHANGED <<engineVars, ctorVars, envVars, lockVars, resizeVars,
                   flagVars, lastFlag, derived, ctorMirrors>>

\* ------------------------------------------------------------------ specifications
\* Spec: goroutines running transactions and resizes concurrently on an Env
\* wrapped around an open engine, in either lock mode, with the resize handler.
InitConc ==
    /\ Init
    /\ envArg = "given"
    /\ engOpen
    /\ flagsRes = "nil"
    /\ engFlags \in {{}, {"NoLock"}}

Next ==
    \/ NewEnv(<<"resized">>)
    \/ \E p \in Procs :
         \/ Lock(p)
         \/ LockGranted(p)
         \/ RLock(p)
         \/ RLockGranted(p)
         \/ \E s \in ConcScripts :
              \/ \E flags \in TxnFlagArgs : RunTxn(p, flags, s)
              \/ View(p, s)
              \/ Update(p, s)
              \/ UpdateLocked(p, s)
         \/ run(p)
         \/ runReturn(p)
         \/ HandleTxnErr(p)
         \/ runHandlerReturn(p)
         \/ \E sz \in Sizes : SetMapSize(p, sz)
         \/ SetMapSizeCall(p)
         \/ setMapSizeSleep(p)
         \/ setMapSizeReturn(p)
         \/ Return(p)

Spec == InitConc /\ [][Next]_vars

\* SpecSeq: one goroutine making every transaction and resize call of the
\* package, one after the other, on the Env and on derived runners, with every
\* handler chain and every engine answer.
NextSeq ==
    \/ \E h \in Chains : NewEnv(h)
    \/ \E p \in {1} :
         \/ Lock(p)
         \/ RLock(p)
         \/ \E s \in Scripts :
              \/ \E flags \in TxnFlagArgs : RunTxn(p, flags, s)
              \/ View(p, s)
              \/ Update(p, s)
              \/ UpdateLocked(p, s)
              \/ \E fn \in {"RunTxn", "View", "Update", "UpdateLocked"},
                    flags \in TxnFlagArgs : RunnerTxn(p, fn, flags, s)
         \/ run(p)
         \/ runReturn(p)
         \/ \E h \in HandlerIds : WithHandler(p, h)
         \/ HandleTxnErr(p)
         \/ runHandlerReturn(p)
         \/ \E sz \in Sizes : SetMapSize(p, sz)
         \/ SetMapSizeCall(p)
         \/ setMapSizeSleep(p)
         \/ setMapSizeReturn(p)
         \/ Return(p)

SpecSeq == InitConc /\ [][NextSeq]_vars

\* SpecFlags: flag changes concurrent with transactions that succeed at once,
\* on an Env without handlers.
NextFlags ==
    \/ NewEnv(<<>>)
    \/ \E p \in Procs :
         \/ Lock(p)
         \/ LockGranted(p)
         \/ RLock(p)
         \/ RLockGranted(p)
         \/ View(p, NoScript)
         \/ Update(p, NoScript)
         \/ run(p)
         \/ runReturn(p)
         \/ runHandlerReturn(p)
         \/ \E flags \in EnvFlagArgs :
              \/ Open(p, flags)
              \/ SetFlags(p, flags)
              \/ UnsetFlags(p, flags)
         \/ OpenReturn(p)
         \/ SetFlagsReturn(p)
         \/ UnsetFlagsReturn(p)
         \/ Return(p)

SpecFlags == Init /\ [][NextFlags]_vars

\* SpecFlagsSeq: one goroutine making Open, SetFlags, UnsetFlags and
\* transaction calls one after the other, from every state NewEnv can start in.
NextFlagsSeq ==
    \/ NewEnv(<<>>)
    \/ \E p \in {1} :
         \/ Lock(p)
         \/ RLock(p)
         \/ View(p, NoScript)
         \/ Update(p, NoScript)
         \/ run(p)
         \/ runReturn(p)
         \/ runHandlerReturn(p)
         \/ \E flags \in EnvFlagArgs :
              \/ Open(p, flags)
              \/ SetFlags(p, flags)
              \/ UnsetFlags(p, flags)
         \/ OpenReturn(p)
         \/ SetFlagsReturn(p)
         \/ UnsetFlagsReturn(p)
         \/ Return(p)

SpecFlagsSeq == Init /\ [][NextFlagsSeq]_vars

\* FairSpec: Spec with the scheduling Go gives.  A goroutine that can take its
\* next step takes it; sync.Mutex hands the writer mutex to a goroutine that
\* keeps asking for it (its starvation mode), so Lock is strongly fair.
\* Starting a new call is left to the caller.
Step(p) ==
    \/ LockGranted(p)
    \/ RLock(p)
    \/ RLockGranted(p)
    \/ run(p)
    \/ runReturn(p)
    \/ HandleTxnErr(p)
    \/ runHandlerReturn(p)
    \/ SetMapSizeCall(p)
    \/ setMapSizeSleep(p)
    \/ setMapSizeReturn(p)
    \/ Return(p)

FairSpec ==
    /\ InitConc
    /\ [][Next]_vars
    /\ \A p \in Procs : WF_vars(Step(p)) /\ SF_vars(Lock(p))

\* FairSpecSeq: SpecSeq with the one goroutine taking every step it can take;
\* starting a new call is left to the caller.
FairSpecSeq ==
    /\ InitConc
    /\ [][NextSeq]_vars
    /\ WF_vars(Step(1) \/ Lock(1))

\* ------------------------------------------------------------------ claims
InBody(p) == pc[p] = "body"
WriteBody(p) == pc[p] = "body" /\ ~readonly[p]
InEngineResize(p) == pc[p] = "set_engine"
BlockedOnLock(p) == pc[p] \in {"run_Lock", "run_LockWait", "run_RLockWait"}

\* C1: resize exclusivity.  In no reachable state does a transaction body
\* execute while the engine's SetMapSize executes, whatever the lock mode and
\* whichever of SetMapSize and setMapSize started the resize.
C1_ResizeExclusive ==
    \A p, q \in Procs : ~(InBody(p) /\ InEngineResize(q))

\* C1 witness: the engine resize executes while a transaction of another
\* goroutine waits for txnlock.
C1_Witness ==
    \E p, q \in Procs : InEngineResize(q) /\ BlockedOnLock(p)

\* C2: a call of SetMapSize(size) reaches the engine's resize primitive
\* (and from there returns), under fair scheduling.
C2_SetMapSizeReachesEngine ==
    \A p \in Procs :
        (pc[p] = "sms_Lock") ~> (pc[p] = "set_engine" /\ ctx[p] = "public")

\* C3: with r.noLock set from construction on, no write body executes at the
\* same time as another body, read or write.
C3_NoLockExclusion ==
    noLock => \A p, q \in Procs : p # q => ~(WriteBody(p) /\ InBody(q))

\* C3 witness: in lock-disabled mode a write body executes while another
\* goroutine's attempt waits for txnlock.
C3_Witness ==
    /\ noLock
    /\ \E p, q \in Procs : WriteBody(p) /\ BlockedOnLock(q)

\* C3, second half: two read bodies overlap in lock-disabled mode.
C3_ReadersOverlap ==
    /\ noLock
    /\ \E p, q \in Procs : p # q /\ InBody(p) /\ InBody(q) /\ readonly[p] /\ readonly[q]

\* C4: retry correctness.  A write call on the Env (Update) whose attempts end
\* with MapResized N-1 times and then with no error returns no error after
\* exactly N attempts, the map size adopted before each retry.  The engine's
\* own SetMapSize failing (EINVAL, which no attempt returns) is not the
\* claim's case.
C4_RetryCorrect ==
    \A p \in Procs :
        (pc[p] = "done" /\ via[p] = "env" /\ ~readonly[p] /\ script[p].final = "nil"
           /\ ret[p] # "EINVAL")
            => /\ ret[p] = "nil"
               /\ attempts[p] = script[p].resized + 1
               /\ resizes[p] = script[p].resized

\* a chain of baseline handlers only (or none)
BaselineOnly(c) == \A i \in 1..Len(c) : c[i] = "resized"
\* the last attempt the operation of p completed ended with MapFull
LastAttemptMapFull(p) ==
    /\ pc[p] \notin {"idle", "runner"}
    /\ attempts[p] >= 1
    /\ AttemptResult(script[p], attempts[p]) = "MapFull"

\* C5: MapFull is terminal.  Under a chain of baseline handlers only, once an
\* attempt has ended with MapFull the operation makes no further attempt and
\* no resize: it runs its chain and returns MapFull.  With MapFull on the
\* first attempt that is one attempt and no resize at all.
C5_MapFullTerminal ==
    \A p \in Procs :
        (BaselineOnly(chain[p]) /\ LastAttemptMapFull(p))
            => /\ pc[p] \in {"handle", "done"}
               /\ err[p] = "MapFull"
               /\ pc[p] = "done" => ret[p] = "MapFull"
               /\ attempts[p] = script[p].resized + 1
               /\ resizes[p] = script[p].resized

\* C5 witness: under the baseline chain an operation has returned MapFull
\* after one attempt.
C5_Witness ==
    \E p \in Procs :
        /\ pc[p] = "done"
        /\ chain[p] = <<"resized">>
        /\ ret[p] = "MapFull"
        /\ attempts[p] = 1
        /\ resizes[p] = 0

\* C6: mode transitions.  An attempt that begins after the last successful
\* flag call with the NoLock bit was SetFlags takes txnlock exclusively if it
\* writes; after UnsetFlags every attempt takes it shared; read attempts
\* always take it shared.  A SetFlags or UnsetFlags call without the NoLock
\* bit, or one that fails, leaves r.noLock as it is.
C6_ModeTransition ==
    [][\A p \in Procs :
         /\ (pc[p] = "run" /\ pc'[p] # "run")
              => /\ (lastFlag = "set" /\ ~readonly[p]) => mode'[p] = "excl"
                 /\ lastFlag = "unset" => mode'[p] = "shared"
                 /\ readonly[p] => mode'[p] = "shared"
         /\ (pc[p] \in {"setflags_ret", "unsetflags_ret"} /\ pc'[p] = "done")
              => IF ferr[p] = "nil" /\ "NoLock" \in fflags[p]
                 THEN noLock' = (pc[p] = "setflags_ret")
                 ELSE noLock' = noLock
      ]_vars

\* C6 witness: after a successful SetFlags with the NoLock bit a write body
\* executes with txnlock taken exclusively.
C6_Witness ==
    /\ lastFlag = "set"
    /\ \E p \in Procs : WriteBody(p) /\ mode[p] = "excl" /\ w = p

\* C7: setup errors.  When the engine's Open, SetFlags or UnsetFlags fails the
\* proxy returns that error at once, without retry or handler chain, and
\* neither step of the call writes r.noLock.
C7_SetupErrorsInert ==
    [][\A p \in Procs :
         /\ (pc[p] = "idle" /\ pc'[p] \in {"open_ret", "setflags_ret", "unsetflags_ret"})
              => noLock' = noLock
         /\ (pc[p] \in {"open_ret", "setflags_ret", "unsetflags_ret"}
               /\ ferr[p] # "nil" /\ pc'[p] # pc[p])
              => /\ pc'[p] = "done"
                 /\ ret'[p] = ferr[p]
                 /\ noLock' = noLock
                 /\ attempts'[p] = 0
                 /\ hidx'[p] = 0
      ]_vars

\* C7 witness: a SetFlags or UnsetFlags call has failed and returned the
\* engine's error, on a wrapper whose r.noLock no call has written.
C7_Witness ==
    /\ lastFlag = "none"
    /\ \E p \in Procs : pc[p] = "done" /\ via[p] = "" /\ ret[p] = "EINVAL"

\* C8: flag detection at construction.  NewEnv around an engine whose Flags()
\* succeeds takes its lock mode from the NoLock bit; Flags() failing with
\* EINVAL gives a wrapper with locking enabled; any other Flags() error gives
\* that error and no wrapper.
C8_FlagDetection ==
    [][(constructed = "no" /\ constructed' # "no"
          /\ ~(envArg = "nil" /\ newErr # "nil"))
         => /\ flagsRes = "nil"
                => /\ constructed' = "yes"
                   /\ ctorErr' = "nil"
                   /\ noLock' = ("NoLock" \in engFlags)
            /\ flagsRes = "EINVAL"
                => /\ constructed' = "yes"
                   /\ ctorErr' = "nil"
                   /\ noLock' = FALSE
            /\ flagsRes \notin {"nil", "EINVAL"}
                => /\ constructed' = "failed"
                   /\ ctorErr' = flagsRes
      ]_vars

\* C8 witness: with no flag call made, a write body executes with txnlock
\* taken exclusively: the wrapper was built in lock-disabled mode.
C8_Witness ==
    /\ lastFlag = "none"
    /\ noLock
    /\ \E p \in Procs : WriteBody(p) /\ mode[p] = "excl"

\* C9: chain isolation.  No step after construction changes r.Handlers, a
\* runner's chain is r.Handlers with one handler appended, and a call made on
\* the Env runs with r.Handlers from its first to its last step.
C9_ChainIsolation ==
    [][constructed = "yes"
         => /\ Handlers' = Handlers
            /\ \A p \in Procs :
                 /\ (pc[p] = "idle" /\ pc'[p] = "run") => chain'[p] = Handlers
                 /\ (pc[p] = "idle" /\ pc'[p] = "runner")
                      => \E h \in HandlerIds : chain'[p] = Append(Handlers, h)
                 /\ (via[p] = "env" /\ via'[p] = "env") => chain'[p] = chain[p]
      ]_vars

\* C9 witness: after a runner was derived and invoked, a call on the Env is
\* in its chain, at a handler of r.Handlers.
C9_Witness ==
    /\ derived
    /\ \E p \in Procs :
         /\ via[p] = "env"
         /\ pc[p] = "handle"
         /\ hidx[p] = 1
         /\ Len(Handlers) = 1
         /\ chain[p] = Handlers

\* C10: ordering guarantee of resize.  The engine's map size changes in one
\* step only, the engine resize of a goroutine that holds txnlock exclusively
\* with no read holder and no body executing, and an attempt begins its body
\* only while no resize is between its Lock and its Unlock.  So an attempt
\* that begins after a resize has returned runs from its first to its last
\* step with the size that resize left, and no attempt that began before the
\* resize took the lock executes during the engine resize.  (No call of the
\* public SetMapSize returns, see C2; the resize that returns is setMapSize
\* called by the resize handler.)
C10_ResizeOrdering ==
    [][/\ mapSize' # mapSize
            => \E p \in Procs :
                 /\ pc[p] = "set_engine"
                 /\ pc'[p] # "set_engine"
                 /\ w = p
                 /\ readers = {}
                 /\ \A q \in Procs : ~InBody(q)
       /\ \A q \in Procs :
            (pc[q] # "body" /\ pc'[q] = "body")
                => /\ mapSize' = mapSize
                   /\ \A p \in Procs : pc[p] \notin {"set_sleep", "set_engine"}
       /\ \A q \in Procs : (InBody(q) /\ pc'[q] = "body") => mapSize' = mapSize
      ]_vars

\* C10 witness: a resize has returned leaving a size other than the first,
\* and an attempt that began after it executes its body with that size.
C10_Witness ==
    \E p, q \in Procs :
        /\ resizes[p] >= 1
        /\ mapSize > 1
        /\ InBody(q)
        /\ attempts[q] = 0
        /\ p # q

\* the chain hands e back as it got it: no handler converts e
Unconverted(c, e) ==
    \A i \in 1..Len(c) :
        /\ ~(c[i] = "resized" /\ e = "MapResized")
        /\ HandlerResult(c[i], e) = e
\* the operation of p has made an attempt and has not handed its result back
Attempted(p) == pc[p] \notin {"idle", "runner"} /\ attempts[p] >= 1
\* p is in a further attempt of its operation
Reattempting(p) ==
    /\ attempts[p] >= 1
    /\ pc[p] \in {"run", "run_Lock", "run_LockWait", "run_RLock", "run_RLockWait"}

\* C11: transaction-body errors are terminal and verbatim.  When the first
\* attempt ends with an error other than RetryTxn that no handler of the chain
\* converts, the operation makes no second attempt and returns that error;
\* an operation is in a further attempt only when its chain answered RetryTxn.
C11_BodyErrorsVerbatim ==
    \A p \in Procs :
        /\ (Attempted(p) /\ AttemptResult(script[p], 1) # "RetryTxn"
              /\ Unconverted(chain[p], AttemptResult(script[p], 1)))
             => /\ pc[p] \in {"handle", "done"}
                /\ attempts[p] = 1
                /\ err[p] = AttemptResult(script[p], 1)
                /\ pc[p] = "done" => ret[p] = AttemptResult(script[p], 1)
        /\ Reattempting(p) => err[p] = "RetryTxn"

\* C11 as stated, for any error of the attempt, RetryTxn included: the
\* operation returns the error of its first attempt after that one attempt.
C11_AnyErrorVerbatim ==
    \A p \in Procs :
        (Attempted(p) /\ Unconverted(chain[p], AttemptResult(script[p], 1)))
            => /\ pc[p] \in {"handle", "done"}
               /\ attempts[p] = 1
               /\ pc[p] = "done" => ret[p] = AttemptResult(script[p], 1)

\* C11 witness: under a chain with a handler, an operation has returned the
\* body's error after one attempt.
C11_Witness ==
    \E p \in Procs :
        /\ pc[p] = "done"
        /\ Len(chain[p]) = 1
        /\ ret[p] = "EBody"
        /\ attempts[p] = 1

\* r.noLock is false and no call has ever set it: locking is enabled and has
\* been since construction
EnabledSinceNew == constructed = "yes" /\ ~noLock /\ lastFlag = "none"

\* C12: shared path in lock-enabled mode.  On an Env whose r.noLock has been
\* false since construction every attempt, read or write, takes txnlock
\* shared: none holds or asks for the write lock, and none waits for txnlock.
C12_SharedPath ==
    EnabledSinceNew
        => /\ w = None
           /\ rwait = {}
           /\ \A p \in Procs :
                /\ mode[p] # "excl"
                /\ pc[p] \notin {"run_Lock", "run_LockWait", "run_RLockWait"}
                /\ InBody(p) => p \in readers

\* C12 witness: with locking enabled on an open engine an Update body and a
\* View body execute at the same time.
C12_Witness ==
    /\ EnabledSinceNew
    /\ engOpen
    /\ \E p, q \in Procs : WriteBody(p) /\ InBody(q) /\ readonly[q]

\* C12, two Update bodies execute at the same time with locking enabled.
C12_UpdatesOverlap ==
    /\ EnabledSinceNew
    /\ \E p, q \in Procs : p # q /\ WriteBody(p) /\ WriteBody(q)

\* no Open, SetFlags or UnsetFlags call is between its engine call and its
\* write of r.noLock
NoFlagCallInProgress ==
    \A p \in Procs : pc[p] \notin {"open_ret", "setflags_ret", "unsetflags_ret"}
\* r.noLock equals the NoLock bit of the engine's flags
Mirrors == noLock = ("NoLock" \in engFlags)

\* a call of Open, SetFlags or UnsetFlags that succeeded in the engine and whose
\* flags do not hold the NoLock bit comes to its return
BitFreeSuccess(p) ==
    /\ pc[p] \in {"open_ret", "setflags_ret", "unsetflags_ret"}
    /\ ferr[p] = "nil"
    /\ "NoLock" \notin fflags[p]
    /\ pc'[p] = "done"

\* C13: the lock-mode flag mirrors the engine.  With calls that do not
\* overlap, between calls r.noLock equals the NoLock bit of the engine's flags
\* exactly when it did so as NewEnv returned or an Open, SetFlags or
\* UnsetFlags call carrying the NoLock bit has succeeded since; a successful
\* call without the bit leaves r.noLock as it was.
C13_MirrorKept ==
    /\ []((constructed = "yes" /\ NoFlagCallInProgress)
            => (Mirrors <=> (ctorMirrors \/ lastFlag # "none")))
    /\ [][\A p \in Procs : BitFreeSuccess(p) => noLock' = noLock]_vars

\* C13 as stated: when an Open, SetFlags or UnsetFlags call has just
\* succeeded, with whatever flags, r.noLock equals the engine's NoLock bit.
C13_MirrorsAfterAnyCall ==
    \A p \in Procs :
        (pc[p] = "done" /\ via[p] = "" /\ ret[p] = "nil") => Mirrors

\* C13 witness: NewEnv left r.noLock false on an engine holding the NoLock
\* bit, and a call carrying the bit has since succeeded and returned: the two
\* agree.
C13_Witness ==
    /\ constructed = "yes"
    /\ ~ctorMirrors
    /\ lastFlag # "none"
    /\ Mirrors
    /\ \E p \in Procs : pc[p] = "done" /\ via[p] = "" /\ ret[p] = "nil"

\* C13 with calls that overlap: between calls r.noLock equals the engine's
\* NoLock bit once a call carrying the bit has succeeded.
C13_MirrorsWithOverlap ==
    (constructed = "yes" /\ NoFlagCallInProgress /\ lastFlag # "none") => Mirrors

\* C14: lock-disabled exclusion across mode changes.  Whenever r.noLock is
\* set, also right after an Open or SetFlags call has set it with
\* transactions in progress, no write body executes at the same time as
\* another body.
C14_ExclusionAcrossModeChange ==
    (constructed = "yes" /\ noLock)
        => \A p \in Procs : \A q \in Procs \ {p} : ~(WriteBody(p) /\ InBody(q))

\* the last attempt the operation of p completed ended without error
LastAttemptNil(p) ==
    Attempted(p) /\ AttemptResult(script[p], attempts[p]) = "nil"
\* the parts of the retry state machine that hold for every chain: a further
\* attempt only on RetryTxn, Done carrying the chain's result, never RetryTxn
RetryMachine(p) ==
    /\ Reattempting(p) => err[p] = "RetryTxn"
    /\ (pc[p] = "done" /\ via[p] # "") => (ret[p] = err[p] /\ ret[p] # "RetryTxn")

\* C15: retry state machine.  The result of every attempt, nil included, goes
\* through the chain; the operation attempts again exactly when the chain
\* answers RetryTxn and otherwise is Done with the chain's answer, never with
\* RetryTxn.  After an attempt without error the operation is Done with no
\* error and no further attempt when the chain hands nil back as it got it.
C15_RetryStateMachine ==
    \A p \in Procs :
        /\ RetryMachine(p)
        /\ (LastAttemptNil(p) /\ Unconverted(chain[p], "nil"))
             => /\ pc[p] \in {"handle", "done"}
                /\ err[p] = "nil"
                /\ pc[p] = "done" => ret[p] = "nil"

\* C15 as stated: after an attempt without error the operation is Done with
\* no error and no further attempt, for any handler chain.
C15_NilIsDoneForAnyChain ==
    \A p \in Procs :
        /\ RetryMachine(p)
        /\ LastAttemptNil(p)
             => /\ pc[p] \in {"handle", "done"}
                /\ pc[p] = "done" => ret[p] = "nil"

\* C15 witness: an operation is Done without error after a retry: its first
\* attempt ended with MapResized, the chain answered RetryTxn, the second
\* attempt ended without error.
C15_Witness ==
    \E p \in Procs :
        /\ pc[p] = "done"
        /\ chain[p] = <<"resized">>
        /\ attempts[p] = 2
        /\ script[p].resized = 1
        /\ ret[p] = "nil"

\* the operation of p has just been called: no attempt made yet
Starting(p) == pc[p] = "run" /\ attempts[p] = 0

\* C16: retries end with the chain's first answer other than RetryTxn.  Under
\* the resize handler alone an operation whose attempts stop ending with
\* MapResized (and whose body does not itself return RetryTxn) reaches Done;
\* under any chain an operation that has been called reaches Done or, the
\* chain having answered RetryTxn, another attempt.
C16_RetryEndsWithChain ==
    \A p \in {1} :
        /\ (Starting(p) /\ chain[p] = <<"resized">>
              /\ script[p].final \notin {"MapResized", "RetryTxn"})
             ~> (pc[p] = "done")
        /\ Starting(p) ~> (pc[p] = "done" \/ Reattempting(p))

\* C16 as stated: the operation reaches Done also when every attempt ends
\* with MapResized and the chain answers each one with RetryTxn.
C16_BoundedRetry ==
    \A p \in {1} :
        (Starting(p) /\ chain[p] = <<"resized">> /\ script[p].final = "MapResized")
            ~> (pc[p] = "done")

\* C16 witness: an operation is Done after two retries under the resize
\* handler, three attempts in all.
C16_Witness ==
    \E p \in Procs :
        /\ pc[p] = "done"
        /\ chain[p] = <<"resized">>
        /\ script[p].resized = 2
        /\ attempts[p] = 3
        /\ resizes[p] = 2
        /\ ret[p] = script[p].final

\* p is inside setMapSize between its Lock and its Unlock
InResizeWindow(p) == pc[p] \in {"set_sleep", "set_engine"}

\* C17: a delayed resize blocks the whole window.  From its Lock to its
\* Unlock setMapSize holds txnlock exclusively and no transaction body
\* executes; it sleeps only when delay > 0, the engine's map size does not
\* change during the sleep, and with delay > 0 the engine resize is entered
\* from the sleep and from nowhere else.
C17_DelayedResizeWindow ==
    /\ [](\A p \in Procs :
            /\ InResizeWindow(p)
                 => /\ w = p
                    /\ readers = {}
                    /\ \A q \in Procs : ~InBody(q)
            /\ pc[p] = "set_sleep" => delay[p] > 0)
    /\ [][\A p \in Procs :
            /\ (pc[p] = "set_sleep" /\ pc'[p] # "set_sleep")
                 => (pc'[p] = "set_engine" /\ mapSize' = mapSize)
            /\ (pc[p] # "set_engine" /\ pc'[p] = "set_engine" /\ delay[p] > 0)
                 => pc[p] = "set_sleep"
            /\ (pc[p] \in {"set_Lock", "set_LockWait"} /\ pc'[p] \in {"set_sleep", "set_engine"})
                 => (pc'[p] = "set_sleep") = (delay[p] > 0)
       ]_vars

\* C17 witness: setMapSize sleeps with txnlock held while a transaction of
\* another goroutine waits to be admitted.
C17_Witness ==
    \E p, q \in Procs :
        /\ pc[p] = "set_sleep"
        /\ delay[p] > 0
        /\ w = p
        /\ BlockedOnLock(q)

\* p holds txnlock, shared or exclusive, or is queued for it as a reader
HoldsLock(p) == w = p \/ p \in readers \/ p \in rwait

\* C18: the lock is released before the chain runs.  While its handlers
\* execute, and when one of them asks for txnlock in setMapSize, the operation
\* holds txnlock neither shared nor exclusive, whatever the attempt returned
\* and whichever mode it ran in.
C18_LockFreeInChain ==
    \A p \in Procs :
        /\ pc[p] = "handle" => ~HoldsLock(p)
        /\ (pc[p] = "set_Lock" /\ ctx[p] = "handler") => ~HoldsLock(p)
        /\ (pc[p] = "set_LockWait" /\ ctx[p] = "handler") => (p \notin readers /\ p \notin rwait)

\* C18 witness: after a write attempt made under the exclusive lock, the
\* resize handler of the same operation holds txnlock exclusively in
\* setMapSize.
C18_Witness ==
    \E p \in Procs :
        /\ InResizeWindow(p)
        /\ ctx[p] = "handler"
        /\ w = p
        /\ mode[p] = "excl"
        /\ attempts[p] >= 1

\* C18, second half: a handler that has called setMapSize gets txnlock and
\* reaches the engine resize.
C18_HandlerResizeProceeds ==
    (pc[1] = "set_Lock" /\ ctx[1] = "handler") ~> (pc[1] = "set_engine")

\* C19: deadlock freedom of admission.  Under fair scheduling every call in
\* progress on the Env, transaction or SetMapSize, comes to its return, and
\* txnlock is free whenever no call is in progress.
C19_EveryCallReturns ==
    /\ \A p \in Procs : (pc[p] \notin {"idle", "done"}) ~> (pc[p] = "done")
    /\ []((\A p \in Procs : pc[p] \in {"idle", "done"})
            => (w = None /\ readers = {} /\ rwait = {}))
====
